---- MODULE Spec2Model ----
(***************************************************************************)
(* Transaction assembly of the Spore package: createSpores, transferSpores, *)
(* meltSpores, prepareCluster, the action assemblers and the cobuild        *)
(* witness packer (packages/spore/src/api/spore.ts).                        *)
(*                                                                         *)
(* A call is modelled as a start step, one step per loop iteration (the     *)
(* awaits of the lookups separate the iterations) and a finish step.        *)
(*                                                                         *)
(* The SignersController of the connector element (hostConnected,           *)
(* hostDisconnected, refresh and its delayed repetition) is a second        *)
(* specification, SignersSpec, over variables of its own.                   *)
(***************************************************************************)
EXTENDS Integers, Sequences, FiniteSets, TLC

VARIABLES
    tx,               \* the transaction skeleton being assembled
    op,               \* the top-level call in progress or last finished
    pc,               \* "idle" | "loop" | "done" | "failed"
    spores,           \* the entity list of the call (params.spores / params.ids)
    clusterMode,      \* params.clusterMode ("undefined" when unset)
    i,                \* number of list entries the loop has taken
    actions,          \* the call's local `actions`
    ids,              \* the call's local `ids`
    processedCluster, \* the call's local `processedCluster`
    err,              \* message of the error the call threw, "" if none
    celldeps,         \* the call's local `celldeps`
    used,             \* number of list entries all calls so far were given
    spare,            \* whether the signer owns a spare live cell
    tx0,              \* history: the skeleton as the call received it
    cobuild,          \* history: what cobuildRequired(tx) answered, "unchecked" before
    handed,           \* history: witness lists handed to signer.prepareTransaction
    packed,           \* history: action lists handed to the Witness Packer
    clusterCobuild,   \* history: scriptInfo.cobuild as prepareCluster read it
    prev,             \* history: summary of the call before this one
    host,             \* SignersController: "new" | "connected" | "disconnected"
    ctl,              \* the underlying ccc.SignersController:
                      \*   "new" | "refreshed" | "disconnected"
    timers,           \* number of setTimeout callbacks not yet run
    connects,         \* number of hostConnected calls so far
    refreshes,        \* number of controller.refresh calls so far
    wallets,          \* the refresh whose wallets `this.wallets` holds, 0 for []
    updateRequested   \* host.requestUpdate() called and not yet served

sporeVars == <<tx, op, pc, spores, clusterMode, i, actions, ids, processedCluster, err,
               celldeps, used, spare, tx0, cobuild, handed, packed, clusterCobuild,
               prev>>

signerVars == <<host, ctl, timers, connects, refreshes, wallets, updateRequested>>

vars == <<sporeVars, signerVars>>

---------------------------------------------------------------------------
(* Bounds *)

\* Entities handed to the calls of one behaviour, all calls together.
MaxEntities == 2

\* Times the host element is connected in one behaviour.
MaxConnects == 3

---------------------------------------------------------------------------
(* Values *)

NoId == [ins |-> <<>>, idx |-> 0]
S1 == [ins |-> <<"g_s1">>, idx |-> 0]
S2 == [ins |-> <<"g_s2">>, idx |-> 0]
SX == [ins |-> <<"g_sx">>, idx |-> 0]
K1 == [ins |-> <<"g_k1">>, idx |-> 0]
K2 == [ins |-> <<"g_k2">>, idx |-> 0]
KX == [ins |-> <<"g_kx">>, idx |-> 0]

SignerLock == "LS"

NoType == [code |-> "none", args |-> NoId]
EmptyData == [tag |-> "0x", cid |-> NoId]

Script(h, ref) == [h |-> h, ref |-> ref]

EmptyTx == [inputs |-> <<>>, outputs |-> <<>>, outputsData |-> <<>>,
            cellDeps |-> <<>>, witnesses |-> <<>>]

NoPrev == [op |-> "none", spores |-> <<>>, clusterMode |-> "undefined",
           cobuild |-> "unchecked", tx0 |-> EmptyTx, tx |-> EmptyTx]

Range(s) == {s[k] : k \in DOMAIN s}

IsPrefix(s, t) == Len(s) <= Len(t) /\ SubSeq(t, 1, Len(s)) = s

---------------------------------------------------------------------------
(* The chain as the client library reports it *)

SporeIds == {S1, S2, SX}
ClusterIds == {K1, K2, KX}
LiveSpores == {S1, S2}
LiveClusters == {K1, K2}

SporeType(id) == [code |-> "spore", args |-> id]
ClusterType(id) == [code |-> "cluster", args |-> id]

\* The live Spore cell with the identifier `id` and the cell-dependency
\* infos of its script.
SporeCellOf(id) ==
    IF id = S1
    THEN [outPoint |-> "op_s1", lock |-> "LS", type |-> SporeType(S1),
          outputData |-> [tag |-> "spore", cid |-> NoId],
          celldep |-> <<"dep_spore">>]
    ELSE [outPoint |-> "op_s2", lock |-> "LA", type |-> SporeType(S2),
          outputData |-> [tag |-> "spore", cid |-> K1],
          celldep |-> <<"dep_spore", "dep_lua">>]

\* The live Cluster cell with the identifier `id`.  K1 sits under a lock
\* that is not the signer's, K2 under the signer's lock.
ClusterCellOf(id) ==
    IF id = K1
    THEN [outPoint |-> "op_k1", lock |-> "LA", type |-> ClusterType(K1),
          outputData |-> [tag |-> "cluster", cid |-> K1],
          celldep |-> <<"dep_cluster">>]
    ELSE [outPoint |-> "op_k2", lock |-> SignerLock, type |-> ClusterType(K2),
          outputData |-> [tag |-> "cluster", cid |-> K2],
          celldep |-> <<"dep_cluster">>]

\* findExistedSporeCellAndCelldep: whether the lookup finds a live cell.
SporeFound(id) == id \in LiveSpores
ClusterFound(id) == id \in LiveClusters

\* searchOneCellByLock(signer): the first live cell under the signer's own
\* lock; the search does not look at the skeleton.
SpareCell == [outPoint |-> "op_cap", lock |-> SignerLock]

\* buildSporeCellDep(client, SporeScript.Spore, version)
SporeCellDep == <<"dep_spore">>

---------------------------------------------------------------------------
(* Skeleton primitives of the client library *)

CellInput(cell) == [previousOutput |-> cell.outPoint, lock |-> cell.lock]

PushInput(t, cell) == [t EXCEPT !.inputs = Append(@, CellInput(cell))]

\* Transaction.addOutput(output, data): output and data are appended together.
AddOutput(t, lock, type, data) ==
    [t EXCEPT !.outputs = Append(@, [lock |-> lock, type |-> type]),
              !.outputsData = Append(@, data)]

\* Transaction.addCellDeps: a dependency already registered is not added again.
AddCellDeps(t, dep) ==
    IF dep \in Range(t.cellDeps) THEN t
    ELSE [t EXCEPT !.cellDeps = Append(@, dep)]

RECURSIVE AddCellDepInfos(_, _)
AddCellDepInfos(t, deps) ==
    IF deps = <<>> THEN t
    ELSE AddCellDepInfos(AddCellDeps(t, Head(deps)), Tail(deps))

\* Transaction.findInputIndexByLock: the 0-based index of the first input
\* whose cell is under the lock (compared by value), or undefined.
FindInputIndexByLock(t, h) ==
    LET hits == {k \in DOMAIN t.inputs : t.inputs[k].lock = h}
    IN  IF hits = {} THEN [defined |-> FALSE, index |-> 0]
        ELSE [defined |-> TRUE,
              index |-> (CHOOSE k \in hits : \A m \in hits : k <= m) - 1]

\* JavaScript's `!v` for v : number | undefined.
Not(v) == ~v.defined \/ v.index = 0

\* computeTypeId(tx, outputIndex): a digest of the current inputs and the
\* index of the output; it needs at least one input.
ComputeTypeId(t, index) ==
    [ins |-> [k \in DOMAIN t.inputs |-> t.inputs[k].previousOutput], idx |-> index]

\* signer.prepareTransaction: the generic preparation, which puts a default
\* witness placeholder in front when the skeleton carries no witness.
Placeholder == [kind |-> "WitnessArgs", seal |-> "0x", actions |-> <<>>]

PrepareTransaction(t) ==
    IF t.witnesses = <<>> /\ t.inputs # <<>>
    THEN [t EXCEPT !.witnesses = <<Placeholder>>]
    ELSE t

---------------------------------------------------------------------------
(* Action assemblers and the Witness Packer *)

HashOf(x) == [hash |-> x]

ActionRec(kind, type, from, to, dataHash) ==
    [kind |-> kind, scriptInfoHash |-> "COBUILD_INFO_HASH",
     scriptHash |-> HashOf(type), id |-> type.args,
     from |-> from, to |-> to, dataHash |-> dataHash]

assembleCreateSporeAction(sporeOutput, sporeData) ==
    ActionRec("CreateSpore", sporeOutput.type, "", sporeOutput.lock.h, HashOf(sporeData))

assembleTransferSporeAction(sporeInput, sporeOutput) ==
    ActionRec("TransferSpore", sporeOutput.type, sporeInput.lock.h, sporeOutput.lock.h,
              HashOf(EmptyData))

assembleMeltSporeAction(sporeInput) ==
    ActionRec("MeltSpore", sporeInput.type, sporeInput.lock.h, "", HashOf(EmptyData))

assembleTransferClusterAction(clusterInput, clusterOutput) ==
    ActionRec("TransferCluster", clusterOutput.type, clusterInput.lock.h,
              clusterOutput.lock.h, HashOf(EmptyData))

WitnessLayout(acts) == [kind |-> "SighashAll", seal |-> "0x", actions |-> acts]

\* Variant: the proof is packed once per action instead of once per call.
RECURSIVE injectCobuildProofPerAction(_, _)
injectCobuildProofPerAction(t, acts) ==
    IF acts = <<>> THEN t
    ELSE injectCobuildProofPerAction(
             [t EXCEPT !.witnesses = Append(@, WitnessLayout(<<Head(acts)>>))], Tail(acts))

\* Variant: the proof takes the place of the last witness of the skeleton.
injectCobuildProofOverwrite(t, acts) ==
    IF t.witnesses = <<>>
    THEN [t EXCEPT !.witnesses = <<WitnessLayout(acts)>>]
    ELSE [t EXCEPT !.witnesses[Len(t.witnesses)] = WitnessLayout(acts)]

injectCommonCobuildProof(t, acts) ==
    [t EXCEPT !.witnesses = Append(@, WitnessLayout(acts))]

\* prepareSporeTransaction(signer, tx, actions): the Witness Packer run on
\* the collected actions.
prepareSporeTransaction(t, acts) == injectCommonCobuildProof(t, acts)

IsCobuildWitness(w) == w.kind = "SighashAll"

---------------------------------------------------------------------------
(* createSpores *)

CellOutputOf(cell, ref) == [lock |-> Script(cell.lock, ref), type |-> cell.type]

Iter(t, acts, proc, e) == [tx |-> t, acts |-> acts, proc |-> proc, err |-> e]

\* Variant: the spare cell is looked for after the proxy output and the
\* cell-dependency have been added.
CreateLockProxyLateCheck(t, acts, proc, cluster, ref, hasSpare) ==
    LET clusterLock == Script(cluster.lock, ref)
        needProxy == Not(FindInputIndexByLock(t, cluster.lock))
        t1 == IF \A k \in DOMAIN t.outputs : t.outputs[k].lock # clusterLock
              THEN AddOutput(t, clusterLock, NoType, EmptyData)
              ELSE t
        t2 == AddCellDeps(t1, cluster.outPoint)
    IN  IF needProxy /\ ~hasSpare
        THEN Iter(t2, acts, proc, "Cluster lock proxy cell not found")
        ELSE Iter(IF needProxy THEN PushInput(t2, SpareCell) ELSE t2, acts, proc, "")

\* case "lockProxy" of the switch in createSpores.
CreateLockProxy(t, acts, proc, cluster, ref, hasSpare) ==
    LET clusterLock == Script(cluster.lock, ref)
        lockProxyInputIndex == FindInputIndexByLock(t, cluster.lock)
        needProxy == Not(lockProxyInputIndex)
        t1 == IF needProxy THEN PushInput(t, SpareCell) ELSE t
        t2 == IF \A k \in DOMAIN t1.outputs : t1.outputs[k].lock # clusterLock
              THEN AddOutput(t1, clusterLock, NoType, EmptyData)
              ELSE t1
    IN  IF needProxy /\ ~hasSpare
        THEN Iter(t, acts, proc, "Cluster lock proxy cell not found")
        ELSE Iter(AddCellDeps(t2, cluster.outPoint), acts, proc, "")

\* Variant: the cluster cell is included and no action is assembled for it.
CreateClusterCellSilent(t, acts, proc, cluster, ref) ==
    LET out == CellOutputOf(cluster, ref)
        t1 == PushInput(t, cluster)
        t2 == AddOutput(t1, out.lock, out.type, cluster.outputData)
        t3 == AddCellDeps(t2, cluster.outPoint)
        t4 == AddCellDepInfos(t3, cluster.celldep)
    IN  Iter(t4, acts, proc, "")

\* case "clusterCell" of the switch in createSpores.
CreateClusterCell(t, acts, proc, cluster, ref) ==
    LET out == CellOutputOf(cluster, ref)
        t1 == PushInput(t, cluster)
        t2 == AddOutput(t1, out.lock, out.type, cluster.outputData)
        t3 == AddCellDeps(t2, cluster.outPoint)
        t4 == AddCellDepInfos(t3, cluster.celldep)
    IN  Iter(t4, Append(acts, assembleTransferClusterAction(out, out)), proc, "")

\* Variant: the cluster is resolved before the spore's output is appended, so
\* the identifier is derived with an index another output then takes.
CreateIterationClusterFirst(t, acts, proc, sp, mode, ref, hasSpare) ==
    LET id == ComputeTypeId(t, Len(t.outputs))
        type == SporeType(id)
        packedData == [tag |-> "spore", cid |-> sp.id]
        lock == Script(IF sp.to = "" THEN SignerLock ELSE sp.to, 0)
        resolve == mode # "undefined" /\ sp.id # NoId /\ sp.id \notin Range(proc)
                   /\ ClusterFound(sp.id)
        r == IF ~resolve THEN Iter(t, acts, proc, "")
             ELSE IF mode = "lockProxy"
             THEN CreateLockProxy(t, acts, Append(proc, sp.id), ClusterCellOf(sp.id),
                                  ref, hasSpare)
             ELSE CreateClusterCell(t, acts, Append(proc, sp.id), ClusterCellOf(sp.id), ref)
        t1 == AddOutput(r.tx, lock, type, packedData)
        output == t1.outputs[Len(t1.outputs)]
    IN  Iter(t1, Append(r.acts, assembleCreateSporeAction(output, packedData)),
             r.proc, r.err)

\* One pass of the loop of createSpores over the entry sp = {data, to}, where
\* sp.id is data.clusterId; ref names the objects the cluster lookup of this
\* pass returns.
CreateIteration(t, acts, proc, sp, mode, ref, hasSpare) ==
    LET id == ComputeTypeId(t, Len(t.outputs))
        type == SporeType(id)
        packedData == [tag |-> "spore", cid |-> sp.id]
        lock == Script(IF sp.to = "" THEN SignerLock ELSE sp.to, 0)
        t1 == AddOutput(t, lock, type, packedData)
        output == t1.outputs[Len(t1.outputs)]
        acts1 == Append(acts, assembleCreateSporeAction(output, packedData))
    IN  IF mode = "undefined" \/ sp.id = NoId \/ sp.id \in Range(proc)
        THEN Iter(t1, acts1, proc, "")
        ELSE LET proc1 == Append(proc, sp.id)
             IN  IF ~ClusterFound(sp.id)
                 THEN Iter(t1, acts1, proc1, "Cluster not found")
                 ELSE IF mode = "lockProxy"
                      THEN CreateLockProxy(t1, acts1, proc1, ClusterCellOf(sp.id),
                                           ref, hasSpare)
                      ELSE CreateClusterCell(t1, acts1, proc1, ClusterCellOf(sp.id), ref)

---------------------------------------------------------------------------
(* transferSpores and meltSpores *)

Iter2(t, acts, deps, e) == [tx |-> t, acts |-> acts, deps |-> deps, err |-> e]

\* The CellDepInfo objects a lookup returns for the dependencies `celldep`;
\* ref names the objects: 0 for the objects of a table every lookup shares,
\* another number for objects made by one lookup.
InfoObjects(celldep, ref) == [k \in DOMAIN celldep |-> [dep |-> celldep[k], ref |-> ref]]

\* [...celldeps]: the dependencies the objects of the Set describe.
DepsOf(infos) == [k \in DOMAIN infos |-> infos[k].dep]

\* celldep.forEach((value) => celldeps.add(value)): a Set of objects holds
\* an object once, and two objects of equal content both.
RECURSIVE AddAll(_, _)
AddAll(deps, more) ==
    IF more = <<>> THEN deps
    ELSE AddAll(IF Head(more) \in Range(deps) THEN deps ELSE Append(deps, Head(more)),
                Tail(more))

\* Variant: an entry whose cell is not found is passed over.
TransferIterationSkipMissing(t, acts, deps, sp, ref) ==
    IF ~SporeFound(sp.id)
    THEN Iter2(t, acts, deps, "")
    ELSE LET sporeCell == SporeCellOf(sp.id)
             t1 == PushInput(t, sporeCell)
             t2 == AddOutput(t1, Script(sp.to, 0), sporeCell.type, sporeCell.outputData)
             sporeOutput == t2.outputs[Len(t2.outputs)]
             transferSpore == assembleTransferSporeAction(CellOutputOf(sporeCell, 0),
                                                          sporeOutput)
         IN  Iter2(t2, Append(acts, transferSpore), AddAll(deps, InfoObjects(sporeCell.celldep, ref)), "")

\* Variant: the output is put under the lock of the consumed cell.
TransferIterationKeepLock(t, acts, deps, sp, ref) ==
    IF ~SporeFound(sp.id)
    THEN Iter2(t, acts, deps, "Spore not found")
    ELSE LET sporeCell == SporeCellOf(sp.id)
             t1 == PushInput(t, sporeCell)
             t2 == AddOutput(t1, Script(sporeCell.lock, 0), sporeCell.type,
                             sporeCell.outputData)
             sporeOutput == t2.outputs[Len(t2.outputs)]
             transferSpore == assembleTransferSporeAction(CellOutputOf(sporeCell, 0),
                                                          sporeOutput)
         IN  Iter2(t2, Append(acts, transferSpore), AddAll(deps, InfoObjects(sporeCell.celldep, ref)), "")

\* One pass of the loop of transferSpores over the entry sp = {id, to}; ref
\* names the CellDepInfo objects the lookup of this pass returns.
TransferIteration(t, acts, deps, sp, ref) ==
    IF ~SporeFound(sp.id)
    THEN Iter2(t, acts, deps, "Spore not found")
    ELSE LET sporeCell == SporeCellOf(sp.id)
             t1 == PushInput(t, sporeCell)
             t2 == AddOutput(t1, Script(sp.to, 0), sporeCell.type, sporeCell.outputData)
             sporeOutput == t2.outputs[Len(t2.outputs)]
             transferSpore == assembleTransferSporeAction(CellOutputOf(sporeCell, 0),
                                                          sporeOutput)
         IN  Iter2(t2, Append(acts, transferSpore), AddAll(deps, InfoObjects(sporeCell.celldep, ref)), "")

\* Variant: the melted cell is reproduced as an output, as a transfer does.
MeltIterationReproducing(t, acts, deps, sp, ref) ==
    IF ~SporeFound(sp.id)
    THEN Iter2(t, acts, deps, "Spore not found")
    ELSE LET sporeCell == SporeCellOf(sp.id)
             t1 == PushInput(t, sporeCell)
             t2 == AddOutput(t1, Script(sporeCell.lock, 0), sporeCell.type,
                             sporeCell.outputData)
             meltSpore == assembleMeltSporeAction(CellOutputOf(sporeCell, 0))
         IN  Iter2(t2, Append(acts, meltSpore), AddAll(deps, InfoObjects(sporeCell.celldep, ref)), "")

\* One pass of the loop of meltSpores over the identifier sp.id.
MeltIteration(t, acts, deps, sp, ref) ==
    IF ~SporeFound(sp.id)
    THEN Iter2(t, acts, deps, "Spore not found")
    ELSE LET sporeCell == SporeCellOf(sp.id)
             t1 == PushInput(t, sporeCell)
             meltSpore == assembleMeltSporeAction(CellOutputOf(sporeCell, 0))
         IN  Iter2(t1, Append(acts, meltSpore), AddAll(deps, InfoObjects(sporeCell.celldep, ref)), "")

---------------------------------------------------------------------------
(* prepareCluster *)

\* case "lockProxy" of the switch in prepareCluster.
PrepareLockProxy(t, cluster, ref, hasSpare) ==
    LET lock == Script(cluster.lock, ref)
        needProxy == Not(FindInputIndexByLock(t, cluster.lock))
        t1 == IF needProxy THEN PushInput(t, SpareCell) ELSE t
        t2 == IF \A k \in DOMAIN t1.outputs : t1.outputs[k].lock # lock
              THEN AddOutput(t1, lock, NoType, EmptyData)
              ELSE t1
    IN  IF needProxy /\ ~hasSpare
        THEN Iter(t, <<>>, <<>>, "Cluster lock proxy cell not found")
        ELSE Iter(AddCellDeps(t2, cluster.outPoint), <<>>, <<>>, "")

\* Variant: the cluster cell is included without looking for its outpoint
\* among the inputs.
PrepareClusterCellUnchecked(t, cluster, ref, infoCobuild) ==
    LET out == CellOutputOf(cluster, ref)
        t1 == PushInput(t, cluster)
        t2 == AddOutput(t1, out.lock, out.type, cluster.outputData)
        t3 == AddCellDepInfos(t2, cluster.celldep)
        t4 == AddCellDeps(t3, cluster.outPoint)
    IN  Iter(t4,
             IF infoCobuild THEN <<assembleTransferClusterAction(out, out)>> ELSE <<>>,
             <<>>, "")

\* case "clusterCell" of the switch in prepareCluster; infoCobuild is
\* scriptInfo.cobuild of the cluster's script.
PrepareClusterCell(t, cluster, ref, infoCobuild) ==
    IF \E k \in DOMAIN t.inputs : t.inputs[k].previousOutput = cluster.outPoint
    THEN Iter(t, <<>>, <<>>, "")
    ELSE LET out == CellOutputOf(cluster, ref)
             t1 == PushInput(t, cluster)
             t2 == AddOutput(t1, out.lock, out.type, cluster.outputData)
             t3 == AddCellDepInfos(t2, cluster.celldep)
             t4 == AddCellDeps(t3, cluster.outPoint)
         IN  Iter(t4,
                  IF infoCobuild THEN <<assembleTransferClusterAction(out, out)>> ELSE <<>>,
                  <<>>, "")

\* prepareCluster(signer, tx, data, clusterMode): cid is data.clusterId; the
\* returned action, if any, is the one element of acts.
prepareCluster(t, cid, mode, ref, hasSpare, infoCobuild) ==
    IF cid = NoId \/ mode = "skip"
    THEN Iter(t, <<>>, <<>>, "")
    ELSE IF mode = "undefined"
    THEN Iter(t, <<>>, <<>>, "clusterMode is undefined but the spore has a cluster")
    ELSE IF ~ClusterFound(cid)
    THEN Iter(t, <<>>, <<>>, "Cluster not found")
    ELSE IF mode = "lockProxy"
    THEN PrepareLockProxy(t, ClusterCellOf(cid), ref, hasSpare)
    ELSE PrepareClusterCell(t, ClusterCellOf(cid), ref, infoCobuild)

---------------------------------------------------------------------------
(* Parameters the callers pass *)

Lists(S, n) == UNION {[1..k -> S] : k \in 1..n}

CreateEntries ==
    {[id |-> c, to |-> ""] : c \in {NoId, K1, K2, KX}} \cup {[id |-> NoId, to |-> "LB"]}
CreateModes == {"undefined", "lockProxy", "clusterCell"}
TransferEntries == {[id |-> s, to |-> "LB"] : s \in SporeIds}
MeltEntries == {[id |-> s, to |-> ""] : s \in SporeIds}
PrepareModes == {"undefined", "skip", "lockProxy", "clusterCell"}

---------------------------------------------------------------------------
(* The calls *)

Init ==
    /\ tx = EmptyTx
    /\ op = "none"
    /\ pc = "idle"
    /\ spores = <<>>
    /\ clusterMode = "undefined"
    /\ i = 0
    /\ actions = <<>>
    /\ ids = <<>>
    /\ processedCluster = <<>>
    /\ celldeps = <<>>
    /\ err = ""
    /\ used = 0
    /\ spare \in BOOLEAN
    /\ tx0 = EmptyTx
    /\ cobuild = "unchecked"
    /\ handed = <<>>
    /\ packed = <<>>
    /\ clusterCobuild = FALSE
    /\ prev = NoPrev
    /\ host = "new"
    /\ ctl = "new"
    /\ timers = 0
    /\ connects = 0
    /\ refreshes = 0
    /\ wallets = 0
    /\ updateRequested = FALSE

\* A caller starts a call on a new skeleton, or on the skeleton the call
\* before returned.
CanStart(n) == pc \in {"idle", "done"} /\ used + n <= MaxEntities

Summary ==
    IF pc = "done"
    THEN [op |-> op, spores |-> spores, clusterMode |-> clusterMode,
          cobuild |-> cobuild, tx0 |-> tx0, tx |-> tx]
    ELSE NoPrev

\* The locals of a call as it begins: `ids`, `processedCluster` and
\* `celldeps` are empty.
Begin(name, list, mode) ==
    /\ op' = name
    /\ spores' = list
    /\ clusterMode' = mode
    /\ i' = 0
    /\ ids' = <<>>
    /\ processedCluster' = <<>>
    /\ celldeps' = <<>>
    /\ used' = used + Len(list)
    /\ tx0' = tx
    /\ cobuild' = "unchecked"
    /\ handed' = <<>>
    /\ packed' = <<>>
    /\ prev' = Summary
    /\ UNCHANGED <<spare, signerVars>>

\* Variant: the loop is entered on the skeleton as received, without a
\* capacity cell.
StartCreateNoInject(list, mode) ==
    /\ CanStart(Len(list))
    /\ Begin("create", list, mode)
    /\ actions' = <<>>
    /\ clusterCobuild' = FALSE
    /\ tx' = tx /\ pc' = "loop" /\ err' = ""

\* createSpores up to its loop: Transaction.from(params.tx ?? {}) and the
\* injection of one capacity cell into a skeleton without inputs.
StartCreate(list, mode) ==
    /\ CanStart(Len(list))
    /\ Begin("create", list, mode)
    /\ actions' = <<>>
    /\ clusterCobuild' = FALSE
    /\ IF tx.inputs # <<>>
       THEN tx' = tx /\ pc' = "loop" /\ err' = ""
       ELSE IF spare
       THEN tx' = PushInput(tx, SpareCell) /\ pc' = "loop" /\ err' = ""
       ELSE tx' = tx /\ pc' = "failed" /\ err' = "No live cell found"

CreateStep ==
    /\ op = "create" /\ pc = "loop" /\ i < Len(spores)
    /\ LET r == CreateIteration(tx, actions, processedCluster, spores[i + 1],
                                clusterMode, used - Len(spores) + i + 1, spare)
       IN  /\ tx' = r.tx
           /\ actions' = r.acts
           /\ processedCluster' = r.proc
           /\ ids' = Append(ids, ComputeTypeId(tx, Len(tx.outputs)))
           /\ err' = r.err
           /\ pc' = IF r.err = "" THEN "loop" ELSE "failed"
    /\ i' = i + 1
    /\ UNCHANGED <<op, spores, clusterMode, celldeps, used, spare, tx0, cobuild,
                   handed, packed, clusterCobuild, prev, signerVars>>

\* Variant: the proof is packed whatever cobuildRequired(tx) answers.
ReturnAlwaysPacked(t, required) ==
    /\ cobuild' = IF required THEN "yes" ELSE "no"
    /\ IF required
       THEN /\ tx' = prepareSporeTransaction(t, actions)
            /\ packed' = Append(packed, actions)
            /\ handed' = handed
       ELSE /\ tx' = PrepareTransaction(injectCommonCobuildProof(t, actions))
            /\ handed' = Append(handed, injectCommonCobuildProof(t, actions).witnesses)
            /\ packed' = Append(packed, actions)
    /\ pc' = "done"
    /\ UNCHANGED <<op, spores, clusterMode, i, actions, ids, processedCluster,
                   celldeps, err, used, spare, tx0, clusterCobuild, prev, signerVars>>

\* The return of a call: cobuildRequired(tx) ? prepareSporeTransaction(signer,
\* tx, actions) : signer.prepareTransaction(tx).
Return(t, required) ==
    /\ cobuild' = IF required THEN "yes" ELSE "no"
    /\ IF required
       THEN /\ tx' = prepareSporeTransaction(t, actions)
            /\ packed' = Append(packed, actions)
            /\ handed' = handed
       ELSE /\ tx' = PrepareTransaction(t)
            /\ handed' = Append(handed, t.witnesses)
            /\ packed' = packed
    /\ pc' = "done"
    /\ UNCHANGED <<op, spores, clusterMode, i, actions, ids, processedCluster,
                   celldeps, err, used, spare, tx0, clusterCobuild, prev, signerVars>>

CreateFinish(required) ==
    /\ op = "create" /\ pc = "loop" /\ i = Len(spores)
    /\ Return(AddCellDepInfos(tx, SporeCellDep), required)

StartTransfer(list) ==
    /\ CanStart(Len(list))
    /\ Begin("transfer", list, "undefined")
    /\ actions' = <<>>
    /\ clusterCobuild' = FALSE
    /\ tx' = tx /\ pc' = "loop" /\ err' = ""

TransferStep ==
    /\ op = "transfer" /\ pc = "loop" /\ i < Len(spores)
    /\ \E ref \in {0, i + 1} :
       LET r == TransferIteration(tx, actions, celldeps, spores[i + 1], ref)
       IN  /\ tx' = r.tx
           /\ actions' = r.acts
           /\ celldeps' = r.deps
           /\ err' = r.err
           /\ pc' = IF r.err = "" THEN "loop" ELSE "failed"
    /\ i' = i + 1
    /\ UNCHANGED <<op, spores, clusterMode, ids, processedCluster, used, spare, tx0,
                   cobuild, handed, packed, clusterCobuild, prev, signerVars>>

\* Variant: the collected dependencies are appended to the skeleton's list
\* as they are.
TransferFinishRawDeps(required) ==
    /\ op = "transfer" /\ pc = "loop" /\ i = Len(spores)
    /\ Return([tx EXCEPT !.cellDeps = @ \o DepsOf(celldeps)], required)

TransferFinish(required) ==
    /\ op = "transfer" /\ pc = "loop" /\ i = Len(spores)
    /\ Return(AddCellDepInfos(tx, DepsOf(celldeps)), required)

StartMelt(list) ==
    /\ CanStart(Len(list))
    /\ Begin("melt", list, "undefined")
    /\ actions' = <<>>
    /\ clusterCobuild' = FALSE
    /\ tx' = tx /\ pc' = "loop" /\ err' = ""

MeltStep ==
    /\ op = "melt" /\ pc = "loop" /\ i < Len(spores)
    /\ \E ref \in {0, i + 1} :
       LET r == MeltIteration(tx, actions, celldeps, spores[i + 1], ref)
       IN  /\ tx' = r.tx
           /\ actions' = r.acts
           /\ celldeps' = r.deps
           /\ err' = r.err
           /\ pc' = IF r.err = "" THEN "loop" ELSE "failed"
    /\ i' = i + 1
    /\ UNCHANGED <<op, spores, clusterMode, ids, processedCluster, used, spare, tx0,
                   cobuild, handed, packed, clusterCobuild, prev, signerVars>>

MeltFinish(required) ==
    /\ op = "melt" /\ pc = "loop" /\ i = Len(spores)
    /\ Return(AddCellDepInfos(tx, DepsOf(celldeps)), required)

\* A caller invokes prepareCluster on a skeleton for the spore data with
\* clusterId cid; `actions` holds the action it returns, if any.
PrepareClusterCall(cid, mode, infoCobuild) ==
    /\ CanStart(1)
    /\ Begin("prepareCluster", <<[id |-> cid, to |-> ""]>>, mode)
    /\ LET r == prepareCluster(tx, cid, mode, used + 1, spare, infoCobuild)
       IN  /\ tx' = r.tx
           /\ actions' = r.acts
           /\ err' = r.err
           /\ pc' = IF r.err = "" THEN "done" ELSE "failed"
    /\ clusterCobuild' = infoCobuild

---------------------------------------------------------------------------
(* The assemblers called on their own *)

Assemblers == {"assembleCreateSporeAction", "assembleTransferSporeAction",
               "assembleMeltSporeAction", "assembleTransferClusterAction"}

\* The cell-output-like values a caller passes: sp.id is the args of the
\* type script, NoId for a cell without one, and sp.to the lock.
AssembleCells == {[id |-> c, to |-> l] : c \in {NoId, S1}, l \in {"LS", "LB"}}

CellLike(name, sp) ==
    [lock |-> Script(sp.to, 0),
     type |-> IF sp.id = NoId THEN NoType
              ELSE IF name = "assembleTransferClusterAction" THEN ClusterType(sp.id)
              ELSE SporeType(sp.id)]

\* Variant: only the first cell is looked at.
MissingTypeOfFirst(cells) == cells[1].type = NoType

\* if (!sporeInput.type || !sporeOutput.type)
MissingType(cells) == \E k \in DOMAIN cells : cells[k].type = NoType

MustHaveType(name) ==
    IF name = "assembleTransferClusterAction"
    THEN "Cluster cell must have a type script"
    ELSE "Spore cell must have a type script"

\* What the assembler `name` does with the cells: the action it returns as
\* the one element of acts, or the error it throws.
Assemble(name, cells) ==
    IF MissingType(cells)
    THEN [acts |-> <<>>, err |-> MustHaveType(name)]
    ELSE [acts |-> << CASE name = "assembleCreateSporeAction" ->
                            assembleCreateSporeAction(cells[1], EmptyData)
                        [] name = "assembleTransferSporeAction" ->
                            assembleTransferSporeAction(cells[1], cells[2])
                        [] name = "assembleMeltSporeAction" ->
                            assembleMeltSporeAction(cells[1])
                        [] OTHER ->
                            assembleTransferClusterAction(cells[1], cells[2]) >>,
          err |-> ""]

Arity(name) ==
    IF name \in {"assembleCreateSporeAction", "assembleMeltSporeAction"} THEN 1 ELSE 2

\* A caller passes cells to an assembler; no skeleton is involved.
AssembleCall(name, list) ==
    /\ pc = "idle"
    /\ Len(list) = Arity(name)
    /\ op' = name
    /\ spores' = list
    /\ LET r == Assemble(name, [k \in DOMAIN list |-> CellLike(name, list[k])])
       IN  /\ actions' = r.acts
           /\ err' = r.err
           /\ pc' = IF r.err = "" THEN "returned" ELSE "threw"
    /\ UNCHANGED <<tx, clusterMode, i, ids, processedCluster, celldeps, used, spare,
                   tx0, cobuild, handed, packed, clusterCobuild, prev, signerVars>>

Next ==
    \/ \E list \in Lists(CreateEntries, MaxEntities), mode \in CreateModes :
           StartCreate(list, mode)
    \/ CreateStep
    \/ \E required \in BOOLEAN : CreateFinish(required)
    \/ \E list \in Lists(TransferEntries, MaxEntities) : StartTransfer(list)
    \/ TransferStep
    \/ \E required \in BOOLEAN : TransferFinish(required)
    \/ \E list \in Lists(MeltEntries, MaxEntities) : StartMelt(list)
    \/ MeltStep
    \/ \E required \in BOOLEAN : MeltFinish(required)
    \/ \E cid \in {NoId, K1, K2, KX}, mode \in PrepareModes :
           \E infoCobuild \in IF mode = "clusterCell" /\ ClusterFound(cid)
                               THEN BOOLEAN ELSE {FALSE} :
               PrepareClusterCall(cid, mode, infoCobuild)
    \/ \E name \in Assemblers, list \in Lists(AssembleCells, 2) : AssembleCall(name, list)

Spec == Init /\ [][Next]_vars

---------------------------------------------------------------------------
(* SignersController *)

\* refresh(): this.controller.refresh(this.host.client, callback, this.host).
Refresh ==
    /\ ctl' = "refreshed"
    /\ refreshes' = refreshes + 1

\* hostConnected(): refresh now, and once more from a timer 500 ms later.
\* The element may be connected again after it was disconnected.
HostConnected ==
    /\ host # "connected"
    /\ connects < MaxConnects
    /\ host' = "connected"
    /\ connects' = connects + 1
    /\ Refresh
    /\ timers' = timers + 1
    /\ UNCHANGED <<wallets, updateRequested, sporeVars>>

\* hostDisconnected(): this.controller.disconnect().
HostDisconnected ==
    /\ host = "connected"
    /\ host' = "disconnected"
    /\ ctl' = "disconnected"
    /\ UNCHANGED <<timers, connects, refreshes, wallets, updateRequested, sporeVars>>

\* A timer set by hostConnected runs its callback, () => this.refresh().
TimerFires ==
    /\ timers > 0
    /\ timers' = timers - 1
    /\ Refresh
    /\ UNCHANGED <<host, connects, wallets, updateRequested, sporeVars>>

\* The callback given to controller.refresh is called with the wallets of
\* refresh r: this.wallets = [...wallets]; this.update().
OnWallets(r) ==
    /\ r <= refreshes
    /\ r # wallets
    /\ wallets' = r
    /\ updateRequested' = TRUE
    /\ UNCHANGED <<host, ctl, timers, connects, refreshes, sporeVars>>

\* The host serves the update requested of it.
HostUpdated ==
    /\ updateRequested
    /\ updateRequested' = FALSE
    /\ UNCHANGED <<host, ctl, timers, connects, refreshes, wallets, sporeVars>>

\* The controller as constructed; no call is made on a skeleton.
SignersInit == Init /\ ~spare

SignersNext ==
    \/ HostConnected
    \/ HostDisconnected
    \/ TimerFires
    \/ \E r \in 1..(2 * MaxConnects) : OnWallets(r)
    \/ HostUpdated

SignersSpec == SignersInit /\ [][SignersNext]_vars

---------------------------------------------------------------------------
(* Vocabulary of the properties *)

Lifecycle == {"create", "transfer", "melt"}

CobuildWitnesses(t) == SelectSeq(t.witnesses, IsCobuildWitness)

Kinds(acts) == [k \in DOMAIN acts |-> acts[k].kind]

IsEntityAction(a) == a.kind # "TransferCluster"

\* The actions of the entities of the list, without those of their clusters.
EntityActions == SelectSeq(actions, IsEntityAction)

Completed(name) == op = name /\ pc = "done"

\* Number of inputs of t that consume the cell.
Consuming(t, cell) ==
    Cardinality({k \in DOMAIN t.inputs : t.inputs[k].previousOutput = cell.outPoint})

\* Number of outputs of t without a type under the lock of the cell: what
\* the lockProxy case adds for a cluster.
ProxyOutputs(t, cell) ==
    Cardinality({k \in DOMAIN t.outputs :
                    t.outputs[k].type = NoType /\ t.outputs[k].lock.h = cell.lock})

\* Number of outputs of t that carry the type of the cell.
Reproduced(t, cell) ==
    Cardinality({k \in DOMAIN t.outputs : t.outputs[k].type = cell.type})

---------------------------------------------------------------------------
(* C1 *)

\* C1: a createSpores, transferSpores or meltSpores call that completes with
\* the cobuild proof required has appended exactly one witness to the
\* witnesses it received, the Witness Packer ran once, and the witness holds
\* the actions of the call, one per entity in the order of the entity list
\* (for any number of entities).
C1_WitnessExclusivity ==
    (op \in Lifecycle /\ pc = "done" /\ cobuild = "yes") =>
        /\ tx.witnesses = Append(tx0.witnesses, WitnessLayout(actions))
        /\ Len(CobuildWitnesses(tx)) = Len(CobuildWitnesses(tx0)) + 1
        /\ packed = <<actions>>
        /\ Len(EntityActions) = Len(spores)
        /\ \A k \in DOMAIN spores :
               /\ op = "create" => EntityActions[k].kind = "CreateSpore"
                                   /\ EntityActions[k].id = ids[k]
               /\ op = "transfer" => EntityActions[k].kind = "TransferSpore"
                                     /\ EntityActions[k].id = spores[k].id
               /\ op = "melt" => EntityActions[k].kind = "MeltSpore"
                                 /\ EntityActions[k].id = spores[k].id

\* A call over two entities completed with the proof required.
C1_Witness ==
    /\ op \in Lifecycle /\ pc = "done" /\ cobuild = "yes"
    /\ Len(spores) = 2
    /\ Len(actions) >= 2

---------------------------------------------------------------------------
(* C2 *)

\* C2: after meltSpores for one spore and createSpores for one spore on the
\* skeleton it returned, both with the cobuild proof required, the skeleton
\* carries one cobuild witness whose actions are one MeltSpore followed by
\* one CreateSpore.
C2_MeltThenCreate ==
    (/\ Completed("create") /\ cobuild = "yes" /\ Len(spores) = 1
     /\ spores[1].id = NoId
     /\ prev.op = "melt" /\ prev.cobuild = "yes" /\ Len(prev.spores) = 1)
    => /\ Len(CobuildWitnesses(tx)) = 1
       /\ Kinds(CobuildWitnesses(tx)[1].actions) = <<"MeltSpore", "CreateSpore">>

\* The melt and the create, each over one spore, completed with the proof
\* required, the second on the skeleton of the first.
C2_Reached ==
    /\ Completed("create") /\ cobuild = "yes" /\ Len(spores) = 1
    /\ prev.op = "melt" /\ prev.cobuild = "yes" /\ Len(prev.spores) = 1

---------------------------------------------------------------------------
(* C3, C4 *)

\* The call before was a completed prepareCluster for the same live cluster
\* in the same mode, and this call received the skeleton it left.
SecondPrepare(mode) ==
    /\ Completed("prepareCluster") /\ clusterMode = mode
    /\ prev.op = "prepareCluster" /\ prev.clusterMode = mode
    /\ prev.spores = spores
    /\ spores[1].id \in LiveClusters

\* C3: a second prepareCluster for the same cluster in lockProxy mode adds
\* no input and no output, leaves the cell-dependencies as the first left
\* them, and the skeleton holds one proxy input and one output under the
\* cluster's lock.
C3_LockProxyIdempotent ==
    SecondPrepare("lockProxy") =>
        /\ tx.inputs = tx0.inputs
        /\ tx.outputs = tx0.outputs
        /\ tx.cellDeps = tx0.cellDeps
        /\ Len(tx.inputs) <= Len(prev.tx0.inputs) + 1
        /\ ProxyOutputs(tx, ClusterCellOf(spores[1].id)) = 1

\* C4: a second prepareCluster for the same cluster in clusterCell mode
\* changes neither inputs, outputs, output data nor cell-dependencies and
\* returns no action; on a skeleton that did not consume the cluster cell
\* before, the two invocations leave one input consuming it and one
\* reproduced cluster output.
C4_ClusterCellIdempotent ==
    SecondPrepare("clusterCell") =>
        LET cluster == ClusterCellOf(spores[1].id)
        IN  /\ tx = tx0
            /\ actions = <<>>
            /\ Consuming(prev.tx0, cluster) = 0 =>
                   /\ Consuming(tx, cluster) = 1
                   /\ Reproduced(tx, cluster) = Reproduced(prev.tx0, cluster) + 1

\* The second clusterCell invocation returned, the first having consumed the
\* cluster cell.
C4_Witness ==
    /\ SecondPrepare("clusterCell")
    /\ Consuming(prev.tx0, ClusterCellOf(spores[1].id)) = 0
    /\ Consuming(prev.tx, ClusterCellOf(spores[1].id)) = 1

---------------------------------------------------------------------------
(* C5 *)

\* C5: in a skeleton assembled by createSpores calls only, every cluster has
\* at most one input consuming its cell and at most one proxy output under
\* its lock; two spores of one cluster under lockProxy on a new skeleton give
\* one proxy input, one proxy output, one cluster cell-dependency and two
\* CreateSpore actions.
C5_ClusterResolvedOnce ==
    (op = "create" /\ prev.op \in {"none", "create"}) =>
        /\ \A c \in LiveClusters :
               /\ Consuming(tx, ClusterCellOf(c)) <= 1
               /\ ProxyOutputs(tx, ClusterCellOf(c)) <= 1
        /\ (/\ pc = "done" /\ prev.op = "none" /\ clusterMode = "lockProxy"
            /\ Len(spores) = 2 /\ spores[1] = spores[2]
            /\ spores[1].id \in LiveClusters)
           => /\ Len(tx.inputs) <= 2
              /\ ProxyOutputs(tx, ClusterCellOf(spores[1].id)) = 1
              /\ Len(SelectSeq(tx.cellDeps,
                               LAMBDA d : d = ClusterCellOf(spores[1].id).outPoint)) = 1
              /\ Kinds(actions) = <<"CreateSpore", "CreateSpore">>

---------------------------------------------------------------------------
(* C6 *)

\* C6: when createSpores is given a first spore that declares a cluster while
\* clusterMode is unset, the pass over that spore ends the call with the
\* configuration error and the skeleton's outputs are those it received.
C6_MissingModeIsFatal ==
    (/\ op = "create" /\ clusterMode = "undefined" /\ i >= 1
     /\ spores[1].id # NoId)
    => /\ pc = "failed"
       /\ err = "clusterMode is undefined but the spore has a cluster"
       /\ tx.outputs = tx0.outputs

---------------------------------------------------------------------------
(* C7 *)

\* C7: a lifecycle call that completes with the cobuild proof not required
\* never ran the Witness Packer, handed the signer's preparation step the
\* witness list the call received, and left no cobuild witness of its own.
C7_NoProofPassthrough ==
    (op \in Lifecycle /\ pc = "done" /\ cobuild = "no") =>
        /\ packed = <<>>
        /\ handed = <<tx0.witnesses>>
        /\ CobuildWitnesses(tx) = CobuildWitnesses(tx0)

\* A call completed without the proof, with actions collected, on a
\* skeleton that carried a witness.
C7_Witness ==
    /\ op \in Lifecycle /\ pc = "done" /\ cobuild = "no"
    /\ actions # <<>>
    /\ tx0.witnesses # <<>>

---------------------------------------------------------------------------
(* C8 *)

\* C8: in every state of every call, also after an error, the inputs,
\* outputs, output data and witnesses the call received are a prefix of the
\* skeleton's.
C8_AppendOnly ==
    /\ IsPrefix(tx0.inputs, tx.inputs)
    /\ IsPrefix(tx0.outputs, tx.outputs)
    /\ IsPrefix(tx0.outputsData, tx.outputsData)
    /\ IsPrefix(tx0.witnesses, tx.witnesses)
    /\ Len(tx.outputs) = Len(tx.outputsData)

\* A call on a skeleton with inputs and a witness failed after it had
\* appended to the skeleton.
C8_Witness ==
    /\ pc = "failed"
    /\ tx0.inputs # <<>> /\ tx0.witnesses # <<>>
    /\ Len(tx.outputs) > Len(tx0.outputs)

---------------------------------------------------------------------------
(* C9 *)

\* The list entry whose lookup fails first: a spore that is not live, or in
\* createSpores a cluster that is not live and has to be resolved.
LookupFails(k) ==
    IF op = "create"
    THEN clusterMode # "undefined" /\ spores[k].id # NoId /\ ~ClusterFound(spores[k].id)
    ELSE ~SporeFound(spores[k].id)

\* C9: once the loop of a lifecycle call has taken the first entry whose
\* lookup fails, the call has failed at that entry with the lookup's error:
\* no later entry is taken, inputs, outputs and actions are those of the
\* entries before it (in createSpores, with the output and the action of the
\* entry itself), no witness is appended, the cobuild check and the
\* preparation step have not run.
C9_FailedLookupAborts ==
    \A k \in 1..i :
        (op \in Lifecycle /\ LookupFails(k) /\ \A m \in 1..(k - 1) : ~LookupFails(m))
        => /\ pc = "failed"
           /\ i = k
           /\ err = (IF op = "create" THEN "Cluster not found" ELSE "Spore not found")
           /\ Len(EntityActions) = (IF op = "create" THEN k ELSE k - 1)
           /\ op = "transfer" => /\ Len(tx.inputs) = Len(tx0.inputs) + k - 1
                                 /\ Len(tx.outputs) = Len(tx0.outputs) + k - 1
           /\ op = "melt" => /\ Len(tx.inputs) = Len(tx0.inputs) + k - 1
                             /\ tx.outputs = tx0.outputs
           /\ op = "create" => Len(ids) = k
           /\ tx.witnesses = tx0.witnesses
           /\ cobuild = "unchecked"
           /\ handed = <<>>
           /\ packed = <<>>

\* The lookup for the first of two entries failed.
C9_Witness ==
    /\ op \in {"transfer", "melt"} /\ pc = "failed"
    /\ Len(spores) = 2 /\ i = 1
    /\ ~SporeFound(spores[1].id)

---------------------------------------------------------------------------
(* C10 *)

OutPoints(t) == [k \in DOMAIN t.inputs |-> t.inputs[k].previousOutput]

\* C10: createSpores holds one identifier per spore taken, in list order, and
\* returns as many identifiers as spores; the k-th identifier was derived
\* with the index of the output that carries the k-th spore's data and lock,
\* it is the args of that output's type script, and the output is at that
\* index of the skeleton.
C10_IdsIndexAligned ==
    op = "create" =>
        /\ Len(ids) = i
        /\ pc = "done" => Len(ids) = Len(spores)
        /\ \A k \in DOMAIN ids :
               LET p == ids[k].idx + 1
               IN  /\ p \in DOMAIN tx.outputs
                   /\ p > Len(tx0.outputs)
                   /\ tx.outputs[p].type = SporeType(ids[k])
                   /\ tx.outputsData[p] = [tag |-> "spore", cid |-> spores[k].id]
                   /\ tx.outputs[p].lock.h =
                          (IF spores[k].to = "" THEN SignerLock ELSE spores[k].to)
                   /\ IsPrefix(ids[k].ins, OutPoints(tx))
                   /\ k > 1 => ids[k - 1].idx < ids[k].idx

\* createSpores returned two identifiers, the cluster of the first spore
\* having put an output between the outputs of the two spores.
C10_Witness ==
    /\ Completed("create")
    /\ Len(ids) = 2
    /\ ids[2].idx = ids[1].idx + 2

---------------------------------------------------------------------------
(* C11 *)

\* Number of list entries the loop has completed.
Processed == IF pc = "failed" THEN i - 1 ELSE i

\* C11: transferSpores has appended one input and one output per entry it
\* completed and holds one action per entry; the k-th input consumes the cell
\* found for the k-th identifier, the k-th output has that cell's type and
\* data under the requested lock, and the k-th action is a TransferSpore of
\* that spore from the cell's lock to the requested lock.
C11_TransferPreserves ==
    (op = "transfer" /\ i >= 1) =>
        /\ Len(tx.inputs) = Len(tx0.inputs) + Processed
        /\ Len(tx.outputs) = Len(tx0.outputs) + Processed
        /\ Len(actions) = Processed
        /\ \A k \in 1..Processed :
               LET cell == SporeCellOf(spores[k].id)
                   in == tx.inputs[Len(tx0.inputs) + k]
                   out == tx.outputs[Len(tx0.outputs) + k]
                   data == tx.outputsData[Len(tx0.outputs) + k]
               IN  /\ in.previousOutput = cell.outPoint
                   /\ out.type = cell.type
                   /\ data = cell.outputData
                   /\ out.lock.h = spores[k].to
                   /\ actions[k].kind = "TransferSpore"
                   /\ actions[k].id = spores[k].id
                   /\ actions[k].from = cell.lock
                   /\ actions[k].to = spores[k].to

\* transferSpores returned a skeleton of two or more inputs after moving a
\* spore to a lock other than the one its cell was under.
C11_Witness ==
    /\ Completed("transfer")
    /\ \E k \in DOMAIN spores : SporeCellOf(spores[k].id).lock # spores[k].to
    /\ Len(actions) >= 1
    /\ Len(tx.inputs) >= 2

---------------------------------------------------------------------------
(* C12 *)

\* Number of inputs the call has added that consume a live cluster cell.
ClusterInputsAdded ==
    Cardinality({k \in DOMAIN tx.inputs :
                    /\ k > Len(tx0.inputs)
                    /\ \E c \in LiveClusters :
                           tx.inputs[k].previousOutput = ClusterCellOf(c).outPoint})

\* Number of entries of a lifecycle call whose action has been assembled:
\* createSpores assembles it before the cluster is looked up.
Assembled ==
    IF op = "create" THEN i ELSE Processed

\* C12: a lifecycle call holds one action per entry handled and one
\* TransferCluster per cluster cell it consumed; the scriptHash of each is
\* the hash of the type script of the cell it describes (the spore's output
\* for create and transfer, the consumed cell for melt, a cluster output for
\* TransferCluster), and that cell has a type script.  An assembler given a
\* cell without a type script throws 'must have a type script' and returns
\* no action; given typed cells it returns one action with the hash of the
\* type script of the last cell.
C12_ActionCellConsistency ==
    /\ op \in Lifecycle =>
           /\ Len(EntityActions) = Assembled
           /\ Len(actions) = Assembled + ClusterInputsAdded
           /\ \A k \in 1..Assembled :
                  LET type == CASE op = "create" -> tx.outputs[ids[k].idx + 1].type
                                [] op = "transfer" -> tx.outputs[Len(tx0.outputs) + k].type
                                [] OTHER -> SporeCellOf(spores[k].id).type
                  IN  /\ type # NoType
                      /\ EntityActions[k].scriptHash = HashOf(type)
                      /\ op = "melt" =>
                             tx.inputs[Len(tx0.inputs) + k].previousOutput
                                 = SporeCellOf(spores[k].id).outPoint
           /\ \A k \in DOMAIN actions :
                  actions[k].kind = "TransferCluster" =>
                      \E m \in DOMAIN tx.outputs :
                          /\ tx.outputs[m].type.code = "cluster"
                          /\ actions[k].scriptHash = HashOf(tx.outputs[m].type)
    /\ op \in Assemblers =>
           IF \E k \in DOMAIN spores : spores[k].id = NoId
           THEN pc = "threw" /\ err = MustHaveType(op) /\ actions = <<>>
           ELSE /\ pc = "returned" /\ err = ""
                /\ Len(actions) = 1
                /\ actions[1].scriptHash = HashOf(CellLike(op, spores[Len(spores)]).type)

\* An assembler was given a first cell with a type script and a second cell
\* without one.
C12_Witness ==
    /\ op \in Assemblers /\ pc = "threw"
    /\ Len(spores) = 2
    /\ spores[1].id # NoId /\ spores[2].id = NoId

---------------------------------------------------------------------------
(* C13 *)

\* C13: meltSpores has appended one input per identifier it completed, in
\* list order, each consuming the cell found for the identifier; outputs and
\* output data are those the call received; it holds one MeltSpore action
\* per identifier, in list order, built from the consumed cell (its type
\* script and its lock); a call that returns has completed every identifier.
C13_MeltNoOutput ==
    op = "melt" =>
        /\ pc = "done" => Processed = Len(spores)
        /\ i >= 1 =>
               /\ Len(tx.inputs) = Len(tx0.inputs) + Processed
               /\ tx.outputs = tx0.outputs
               /\ tx.outputsData = tx0.outputsData
               /\ Len(actions) = Processed
               /\ \A k \in 1..Processed :
                      LET cell == SporeCellOf(spores[k].id)
                      IN  /\ tx.inputs[Len(tx0.inputs) + k] = CellInput(cell)
                          /\ actions[k] =
                                 ActionRec("MeltSpore", cell.type, cell.lock, "",
                                           HashOf(EmptyData))

\* meltSpores returned after melting two spores.
C13_Witness ==
    /\ Completed("melt")
    /\ Len(spores) = 2
    /\ Len(actions) = 2

---------------------------------------------------------------------------
(* C14 *)

\* The clusters the call has resolved in lockProxy mode without an error.
ResolvedByLockProxy ==
    IF clusterMode # "lockProxy" \/ pc = "failed" THEN {}
    ELSE IF op = "create" THEN Range(processedCluster)
    ELSE IF op = "prepareCluster" /\ pc = "done" THEN {spores[1].id} \cap LiveClusters
    ELSE {}

\* The postcondition of the lockProxy case for a cluster cell.
LockProxyPost(cluster) ==
    /\ \E k \in DOMAIN tx.inputs : tx.inputs[k].lock = cluster.lock
    /\ \E k \in DOMAIN tx.outputs : tx.outputs[k].lock.h = cluster.lock
    /\ cluster.outPoint \in Range(tx.cellDeps)
    /\ \A k \in DOMAIN tx.inputs :
           k > Len(tx0.inputs) => tx.inputs[k].previousOutput # cluster.outPoint

\* C14: for every cluster a call has resolved in lockProxy mode, the
\* skeleton has an input under the cluster's lock and an output under the
\* cluster's lock, the cluster cell's outpoint is a cell-dependency, and the
\* call has added no input consuming the cluster cell.
C14_LockProxyPostcondition ==
    \A c \in ResolvedByLockProxy : LockProxyPost(ClusterCellOf(c))

---------------------------------------------------------------------------
(* C15 *)

\* The clusters the call has resolved in clusterCell mode.
ResolvedByClusterCell ==
    IF clusterMode # "clusterCell" THEN {}
    ELSE IF op = "create" THEN Range(processedCluster) \cap LiveClusters
    ELSE IF op = "prepareCluster" /\ pc = "done" THEN {spores[1].id} \cap LiveClusters
    ELSE {}

\* Number of inputs the call has added that consume the cell.
AddedConsuming(cell) ==
    Cardinality({k \in DOMAIN tx.inputs :
                    k > Len(tx0.inputs) /\ tx.inputs[k].previousOutput = cell.outPoint})

\* Number of collected actions that are the TransferCluster of the cluster
\* cell from its lock to its lock.
TransferClusterActions(cluster) ==
    Cardinality({k \in DOMAIN actions :
                    actions[k] = ActionRec("TransferCluster", cluster.type, cluster.lock,
                                           cluster.lock, HashOf(EmptyData))})

\* The cluster cell is among the inputs, and a call that added it has also
\* added an output with the cell's lock, type and data.
ConsumedAndReproduced(cluster) ==
    /\ Consuming(tx, cluster) >= 1
    /\ AddedConsuming(cluster) >= 1 =>
           \E m \in DOMAIN tx.outputs :
               /\ m > Len(tx0.outputs)
               /\ tx.outputs[m].type = cluster.type
               /\ tx.outputs[m].lock.h = cluster.lock
               /\ tx.outputsData[m] = cluster.outputData

\* C15 as stated: for every cluster a call has resolved in clusterCell mode,
\* the cluster cell is consumed and reproduced with its lock, type and data,
\* and the collected actions hold one TransferCluster (from and to the
\* cluster's lock) per cluster input the call has added.
C15_ClusterCellEmitsAction ==
    \A c \in ResolvedByClusterCell :
        /\ ConsumedAndReproduced(ClusterCellOf(c))
        /\ TransferClusterActions(ClusterCellOf(c)) = AddedConsuming(ClusterCellOf(c))

\* C15 amended: the cluster cell is consumed and reproduced as stated;
\* createSpores collects one TransferCluster per cluster input it has added,
\* and prepareCluster returns one when the cluster's script declares cobuild
\* (scriptInfo.cobuild) and none when it does not.
C15_ClusterCellActionWhenCobuild ==
    \A c \in ResolvedByClusterCell :
        /\ ConsumedAndReproduced(ClusterCellOf(c))
        /\ TransferClusterActions(ClusterCellOf(c)) =
               IF op = "create" \/ clusterCobuild
               THEN AddedConsuming(ClusterCellOf(c))
               ELSE 0

\* prepareCluster included the cluster cell of a script that does not
\* declare cobuild, and returned no action.
C15_Witness ==
    /\ Completed("prepareCluster") /\ clusterMode = "clusterCell"
    /\ ~clusterCobuild
    /\ spores[1].id \in LiveClusters
    /\ AddedConsuming(ClusterCellOf(spores[1].id)) = 1
    /\ actions = <<>>

---------------------------------------------------------------------------
(* C16 *)

\* createSpores has finished its loop over the entries.
LoopFinished ==
    op = "create" /\ (pc = "done" \/ (pc = "loop" /\ i = Len(spores)))

\* C16: once createSpores has finished its loop, every identifier it derived
\* is the one derived from the inputs the skeleton now has and the index of
\* the spore's output, and that output's type script carries it.
C16_IdsOverFinalInputs ==
    LoopFinished =>
        \A k \in DOMAIN ids :
            /\ ids[k] = ComputeTypeId(tx, ids[k].idx)
            /\ tx.outputs[ids[k].idx + 1].type = SporeType(ComputeTypeId(tx, ids[k].idx))

---------------------------------------------------------------------------
(* C17 *)

\* The inputs createSpores enters its loop with: those it received, or the
\* one capacity cell on a skeleton that had none.
InputsAtLoop ==
    IF tx0.inputs = <<>> THEN <<CellInput(SpareCell)>> ELSE tx0.inputs

\* C17: every identifier createSpores derived was derived from at least one
\* input, and the loop never stands on a skeleton without inputs; the loop
\* is entered with one capacity cell on a skeleton received without inputs
\* and with the received inputs, unchanged, otherwise, and these inputs stay
\* in front of whatever the loop adds; a call that could not inject a
\* capacity cell has derived nothing and left the skeleton as received.
C17_DerivationHasInput ==
    op = "create" =>
        /\ \A k \in DOMAIN ids : ids[k].ins # <<>>
        /\ pc = "loop" => tx.inputs # <<>>
        /\ (pc = "loop" /\ i = 0) => tx.inputs = InputsAtLoop
        /\ (pc # "failed" \/ i >= 1) =>
               /\ IsPrefix(InputsAtLoop, tx.inputs)
               /\ \A k \in DOMAIN ids : IsPrefix(OutPoints([inputs |-> InputsAtLoop]),
                                                  ids[k].ins)
        /\ (pc = "failed" /\ i = 0) =>
               /\ tx0.inputs = <<>> /\ ~spare
               /\ ids = <<>> /\ tx = tx0

\* createSpores derived an identifier on the skeleton a meltSpores call
\* returned, from the inputs of that skeleton and without a capacity cell.
C17_Witness ==
    /\ Completed("create")
    /\ prev.op = "melt"
    /\ tx0.inputs # <<>>
    /\ Len(ids) >= 1
    /\ ids[1].ins = OutPoints(tx0)
    /\ \A k \in DOMAIN tx.inputs : tx.inputs[k].previousOutput # SpareCell.outPoint

---------------------------------------------------------------------------
(* C18 *)

\* The cluster whose resolution in lockProxy mode the call's last step has
\* performed, or NoId.
ResolvingByLockProxy ==
    IF clusterMode # "lockProxy" THEN NoId
    ELSE IF op = "prepareCluster" THEN spores[1].id
    ELSE IF /\ op = "create" /\ i >= 1 /\ pc \in {"loop", "failed"}
            /\ \A k \in 1..(i - 1) : spores[k].id # spores[i].id
    THEN spores[i].id
    ELSE NoId

\* The signer has no spare cell and no input the call received is under the
\* lock.  A call whose signer has no spare cell pushes no input in lockProxy
\* mode, so the inputs received are the inputs at the resolution.
ProxyMissing(lock) ==
    /\ ~spare
    /\ \A k \in DOMAIN tx0.inputs : tx0.inputs[k].lock # lock

\* C18: a lockProxy resolution of a live cluster with no input under the
\* cluster's lock and no spare cell of the signer fails with 'Cluster lock
\* proxy cell not found'; a resolution that failed so has added no input, no
\* output under the cluster's lock and no cell-dependency on the cluster
\* cell, and prepareCluster has left the whole skeleton as received.
C18_LockProxyFailureAddsNothing ==
    ResolvingByLockProxy \in LiveClusters =>
        LET cluster == ClusterCellOf(ResolvingByLockProxy)
        IN  /\ ProxyMissing(cluster.lock) =>
                   pc = "failed" /\ err = "Cluster lock proxy cell not found"
            /\ err = "Cluster lock proxy cell not found" =>
                   /\ pc = "failed" /\ ~spare
                   /\ tx.inputs = tx0.inputs
                   /\ \A k \in DOMAIN tx.outputs :
                          k > Len(tx0.outputs) => tx.outputs[k].lock.h # cluster.lock
                              \/ tx.outputs[k].type # NoType
                   /\ cluster.outPoint \in Range(tx.cellDeps) =>
                          cluster.outPoint \in Range(tx0.cellDeps)
                   /\ op = "prepareCluster" => tx = tx0 /\ actions = <<>>

\* createSpores, given a skeleton with inputs by a signer without a spare
\* cell, failed to find a lock proxy for the cluster of its first spore.
C18_Witness ==
    /\ op = "create" /\ pc = "failed" /\ i = 1
    /\ err = "Cluster lock proxy cell not found"
    /\ tx0.inputs # <<>>
    /\ ProxyMissing(ClusterCellOf(spores[1].id).lock)
    /\ Len(tx.outputs) = Len(tx0.outputs) + 1

---------------------------------------------------------------------------
(* C19 *)

\* The dependencies the lookups of the call's entries have returned.
LookedUpDeps ==
    UNION {Range(SporeCellOf(spores[k].id).celldep) : k \in DOMAIN spores}

\* Number of times the dependency is registered on the skeleton.
Registered(t, dep) ==
    Cardinality({m \in DOMAIN t.cellDeps : t.cellDeps[m] = dep})

\* C19: when transferSpores or meltSpores has returned, every dependency a
\* lookup of the call returned is registered on the skeleton once, no
\* dependency is registered twice, and the skeleton's dependencies are those
\* it came with followed by those returned.
C19_CellDepsDeduplicated ==
    (Completed("transfer") \/ Completed("melt")) =>
        /\ \A dep \in LookedUpDeps : Registered(tx, dep) = 1
        /\ \A dep \in Range(tx.cellDeps) : Registered(tx, dep) = 1
        /\ IsPrefix(tx0.cellDeps, tx.cellDeps)
        /\ Range(tx.cellDeps) = Range(tx0.cellDeps) \cup LookedUpDeps

\* transferSpores returned after two lookups whose dependency sets overlap,
\* its Set holding two objects that describe the same dependency.
C19_Witness ==
    /\ Completed("transfer")
    /\ Len(spores) = 2
    /\ Range(SporeCellOf(spores[1].id).celldep)
           \cap Range(SporeCellOf(spores[2].id).celldep) # {}
    /\ \E a, b \in DOMAIN celldeps : a # b /\ celldeps[a].dep = celldeps[b].dep

---------------------------------------------------------------------------
(* C20 *)

\* C20: while the host is disconnected the underlying controller stays
\* disconnected: no refresh, the delayed one of hostConnected included, runs
\* on it after hostDisconnected.
C20_NoRefreshAfterDisconnect ==
    host = "disconnected" => ctl = "disconnected"

====
